---- MODULE Spec2Model ----
(***************************************************************************)
(* Career Atlas: the Flask handlers of app.py (/process, /preview,         *)
(* /download, /chat), the LangGraph main graph and resume-writing          *)
(* sub-graph of agent.py, and create_resume_pdf of resume_generator.py.    *)
(*                                                                         *)
(* Python values: None is the token None; a str is a TLA+ string; a dict   *)
(* is a function whose DOMAIN is its key set; a pydantic object is a       *)
(* record [cls |-> class name, fields |-> dict of its fields].             *)
(*                                                                         *)
(* Two specifications share the actions. Spec leaves /chat out: chat()     *)
(* reads the session and writes nothing the graphs or the other handlers   *)
(* read. ChatSpec is Spec with /chat, handled at any point of a /process   *)
(* in flight, between any two steps of the graphs.                         *)
(***************************************************************************)
EXTENDS Integers, Sequences, FiniteSets, TLC

\* ---------------------------------------------------------------- bounds
\* /process requests that get past validation (each draws one uuid4)
MaxRequests == 2
\* raw_experiences the profile parser can return
MaxExp == 2

\* ---------------------------------------------------------------- values
None == "<None>"

EmptyDict == [k \in {} |-> None]

\* d[k] = v, like a Python dict assignment / LangGraph channel write
Update(d, k, v) == [x \in (DOMAIN d) \cup {k} |-> IF x = k THEN v ELSE d[x]]

\* dict.get(key, default)
Get(d, k, default) == IF k \in DOMAIN d THEN d[k] ELSE default

\* Python truthiness of a dict: {} is falsy
TruthyDict(d) == DOMAIN d # {}

\* Python truthiness of a str-or-None form value
TruthyStr(s) == s # None /\ s # ""

\* Python truthiness of a pydantic object or None (BaseModel defines neither
\* __bool__ nor __len__, so every instance is truthy)
TruthyObj(o) == o.cls # "NoneType"

NoneObj == [cls |-> "NoneType", fields |-> EmptyDict]

\* BaseModel.dict(): the dict of the object's fields
Dict(o) == o.fields

\* str(x) of a plan dict, as passed to the chat prompt
Str(d) == <<"str", d>>

\* str.strip() on the form values the model submits
Strip(s) ==
    CASE s = " " -> ""
      [] s = " ML Engineer " -> "ML Engineer"
      [] s = " https://linkedin.com/in/u " -> "https://linkedin.com/in/u"
      [] s = "Data Analyst\n" -> "Data Analyst"
      [] OTHER -> s

\* ---------------------------------------------------------------- inputs
\* request.files.get(name): None when the part is missing, else a file
\* whose filename may be ''; a "corrupt" resume is one PdfReader rejects
ResumeUploads == {"missing", "empty_filename", "pdf", "corrupt"}
PictureUploads == {"missing", "empty_filename", "png"}
LinkedinInputs == {"", " ", " https://linkedin.com/in/u "}
\* request.form.get('career_choice'): None when the field is missing
CareerChoices == {None, "resume_based", "market_demand", "Other"}
CustomRoles == {" ", " ML Engineer "}
\* what the model may answer as a job title / plan career
LLMRoleAnswers == {"Data Analyst\n"}
LLMPlanCareers == {"Data Analyst", "ML Engineer"}
\* file names the client may ask /preview and /download for
GeneratedName(id) == <<id, "generated_resume.pdf">>
ResumeName(id) == <<id, "resume.pdf">>
PictureName(id) == <<id, "pic.png">>
RequestableNames == {GeneratedName(i) : i \in 1..MaxRequests}

\* the bodies a POST /chat can carry: a JSON object (what the chat page sends),
\* a JSON value that is not an object, a body that is not JSON
ChatBodies == {"object", "array", "not_json"}

\* ---------------------------------------------------------------- graphs
MainNodes == {"suggest_role", "analyze_market", "review_profile",
              "resume_writing_team", "create_final_plan"}
SubNodes == {"parse_profile", "write_summary", "rewrite_experience",
             "optimize_skills", "compile_resume"}
END == "__end__"

\* the main graph with review_profile wired past resume_writing_team
MainEdgesSkipTeam ==
    { <<"suggest_role", "analyze_market">>,
      <<"analyze_market", "review_profile">>,
      <<"review_profile", "create_final_plan">>,
      <<"create_final_plan", END>> }

\* graph_builder.add_edge(...) of the main graph
MainEdges ==
    { <<"suggest_role", "analyze_market">>,
      <<"analyze_market", "review_profile">>,
      <<"review_profile", "resume_writing_team">>,
      <<"resume_writing_team", "create_final_plan">>,
      <<"create_final_plan", END>> }

\* the sub-graph with optimize_skills wired after write_summary
SubEdgesChained ==
    { <<"parse_profile", "write_summary">>,
      <<"parse_profile", "rewrite_experience">>,
      <<"write_summary", "optimize_skills">>,
      <<"write_summary", "compile_resume">>,
      <<"rewrite_experience", "compile_resume">>,
      <<"optimize_skills", "compile_resume">>,
      <<"compile_resume", END>> }

\* builder.add_edge(...) of the resume-writing sub-graph
SubEdges ==
    { <<"parse_profile", "write_summary">>,
      <<"parse_profile", "rewrite_experience">>,
      <<"parse_profile", "optimize_skills">>,
      <<"write_summary", "compile_resume">>,
      <<"rewrite_experience", "compile_resume">>,
      <<"optimize_skills", "compile_resume">>,
      <<"compile_resume", END>> }

Suggesters == {"resume_based", "market_demand"}

\* a router that always starts at suggest_role
route_always_suggest(st) == "suggest_role"

route_initial_choice(st) ==
    IF st["role_choice"] \in Suggesters THEN "suggest_role" ELSE "analyze_market"

\* the state key each node returns an update for
MainKey(n) ==
    CASE n = "suggest_role" -> "chosen_career"
      [] n = "analyze_market" -> "market_analysis"
      [] n = "review_profile" -> "profile_analysis"
      [] n = "resume_writing_team" -> "tailored_resume"
      [] n = "create_final_plan" -> "final_plan"

\* compile_resume returning its object under parse_profile's key
SubKeyShared(n) ==
    CASE n = "parse_profile" -> "parsed_profile"
      [] n = "write_summary" -> "rewritten_summary"
      [] n = "rewrite_experience" -> "rewritten_experiences"
      [] n = "optimize_skills" -> "optimized_skills"
      [] n = "compile_resume" -> "parsed_profile"

SubKey(n) ==
    CASE n = "parse_profile" -> "parsed_profile"
      [] n = "write_summary" -> "rewritten_summary"
      [] n = "rewrite_experience" -> "rewritten_experiences"
      [] n = "optimize_skills" -> "optimized_skills"
      [] n = "compile_resume" -> "final_resume_content"

\* a retry policy: the failed task is scheduled again
StatusOnErrorRetry == "ready"

\* what a node does when its model call raises: the graphs are compiled
\* without a retry policy, so the task is failed and the error re-raised
StatusOnError == "failed"

\* ---------------------------------------------------------------- Pregel
\* The compiled graphs run in supersteps: the nodes scheduled for a step run
\* (in parallel when there are several), their updates are applied together
\* when all of them have returned, and the next step is made of the nodes an
\* edge leads to from a node of the step just finished.
StepOver(stat) == \A m \in DOMAIN stat : stat[m] \in {"idle", "done"}

Triggered(stat, edges) ==
    { m \in DOMAIN stat : \E d \in DOMAIN stat : stat[d] = "done" /\ <<d, m>> \in edges }

NextStatus(stat, edges) ==
    IF StepOver(stat)
    THEN [m \in DOMAIN stat |-> IF m \in Triggered(stat, edges) THEN "ready" ELSE "idle"]
    ELSE stat

Apply(st, writes) ==
    [k \in (DOMAIN st) \cup {w[1] : w \in writes} |->
        IF \E w \in writes : w[1] = k
        THEN (CHOOSE w \in writes : w[1] = k)[2]
        ELSE st[k]]

\* ---------------------------------------------------------------- state
VARIABLES
    pc,             \* position of the request being handled, "idle" between requests
    handler,        \* the route of the latest /process, /preview or /download
    req,            \* locals of process(): the values it computed so far
    files,          \* names present in app.config['UPLOAD_FOLDER']
    session,        \* the Flask session of the one client: the signed cookie
                    \* it holds, sent with each of its requests and replaced
                    \* by the response of a handler that assigned to it
    response,       \* what that request returned, "pending" until it does
    next_id,        \* unique ids drawn so far (uuid4, never repeated)
    completed_plan, \* final_plan rendered by the latest result.html
    chat_call,      \* the /chat in flight, NoChat when none is: its body,
                    \* whether it called run_chat, with what plan_text, and
                    \* its response, Pending while run_chat has not returned
    scrape_calls,   \* scrape_web_content invocations of the latest /process
    agent_runs,     \* run_agent invocations of the latest /process
    state,          \* TeamState of the main graph
    entry,          \* node the conditional entry point routed to
    mstat,          \* main graph: status of each node in the current superstep
    mwrites,        \* main graph: updates returned in the current superstep
    mexec,          \* main graph: times each node started in this run
    mfin,           \* main graph: times each node returned in this run
    substate,       \* ResumeTeamState of the sub-graph
    sub_pc,         \* "none", "active" or "ended": the sub-graph's invoke
    sstat, swrites, sexec, sfin,    \* the same for the sub-graph
    calls,          \* model calls issued by each node in this run
    rewritten_jobs, \* local of experience_node
    raised          \* nodes whose model call raised in this run

webvars == <<pc, handler, req, files, session, response, next_id,
             completed_plan, scrape_calls, agent_runs>>
mainvars == <<state, entry, mstat, mwrites, mexec, mfin>>
subvars == <<substate, sub_pc, sstat, swrites, sexec, sfin, rewritten_jobs>>
runvars == <<mainvars, subvars, calls, raised>>
vars == <<webvars, chat_call, runvars>>

AllNodes == MainNodes \cup SubNodes
NoPath == << >>
NoRequest ==
    [resume_file |-> "missing", image_filepath |-> NoPath, linkedin_url |-> "",
     final_role_choice |-> None, unique_id |-> 0, resume_text |-> None,
     student_profile |-> None]

Pending == [kind |-> "pending"]
NoChat == [body |-> None, called |-> FALSE, plan_text |-> None, response |-> Pending]
Text(body) == [kind |-> "text", body |-> body]
Error500 == [kind |-> "error", status |-> 500]
Json(r) == [kind |-> "json", response |-> r]

NoRun ==
    /\ state = EmptyDict /\ entry = None
    /\ mstat = [n \in MainNodes |-> "idle"] /\ mwrites = {}
    /\ mexec = [n \in MainNodes |-> 0] /\ mfin = [n \in MainNodes |-> 0]
    /\ substate = EmptyDict /\ sub_pc = "none"
    /\ sstat = [n \in SubNodes |-> "idle"] /\ swrites = {}
    /\ sexec = [n \in SubNodes |-> 0] /\ sfin = [n \in SubNodes |-> 0]
    /\ calls = [n \in AllNodes |-> 0]
    /\ rewritten_jobs = << >>
    /\ raised = {}

Init ==
    /\ pc = "idle" /\ handler = None /\ req = NoRequest
    /\ files = {} /\ session = EmptyDict
    /\ response = Pending
    /\ next_id = 0
    /\ completed_plan = NoneObj
    /\ chat_call = NoChat
    /\ scrape_calls = 0 /\ agent_runs = 0
    /\ NoRun

\* the graphs' state and the counts of what ran live as long as run_agent's
\* caller: they are gone when process() returns or raises
ResetRun ==
    /\ state' = EmptyDict /\ entry' = None
    /\ mstat' = [n \in MainNodes |-> "idle"] /\ mwrites' = {}
    /\ mexec' = [n \in MainNodes |-> 0] /\ mfin' = [n \in MainNodes |-> 0]
    /\ substate' = EmptyDict /\ sub_pc' = "none"
    /\ sstat' = [n \in SubNodes |-> "idle"] /\ swrites' = {}
    /\ sexec' = [n \in SubNodes |-> 0] /\ sfin' = [n \in SubNodes |-> 0]
    /\ calls' = [n \in AllNodes |-> 0]
    /\ rewritten_jobs' = << >>
    /\ raised' = {}

\* ---------------------------------------------------------------- app.py
\* the check without its filename half
ResumeRejectedNoneOnly(resume_file) == resume_file = "missing"

\* `not resume_file or resume_file.filename == ''`
ResumeRejected(resume_file) == resume_file \in {"missing", "empty_filename"}

\* `profile_pic_file and profile_pic_file.filename != ''`
PictureGiven(profile_pic_file) == profile_pic_file \notin {"missing", "empty_filename"}

FinalRoleChoice(role_choice, custom_role) ==
    IF role_choice = "Other" /\ TruthyStr(custom_role) THEN custom_role ELSE role_choice

\* process(), from reading the form to the two saves
process_begin(resume_file, profile_pic_file, linkedin_raw, role_choice, custom_raw) ==
    /\ pc = "idle"
    /\ next_id < MaxRequests
    /\ handler' = "process"
    /\ scrape_calls' = 0 /\ agent_runs' = 0
    /\ UNCHANGED runvars
    /\ LET linkedin_url == Strip(linkedin_raw)
           custom_role == Strip(custom_raw)
           final_role_choice == FinalRoleChoice(role_choice, custom_role)
           unique_id == next_id + 1
           image_filepath == IF PictureGiven(profile_pic_file)
                             THEN PictureName(unique_id) ELSE NoPath
       IN IF ResumeRejected(resume_file)
          THEN /\ response' = Text("A PDF resume is required to proceed.")
               /\ req' = [NoRequest EXCEPT !.resume_file = resume_file,
                                           !.linkedin_url = linkedin_url,
                                           !.final_role_choice = final_role_choice]
               /\ UNCHANGED <<pc, files, next_id>>
          ELSE /\ next_id' = unique_id
               /\ files' = files \cup {ResumeName(unique_id)}
                                 \cup (IF image_filepath = NoPath THEN {} ELSE {image_filepath})
               /\ req' = [NoRequest EXCEPT !.resume_file = resume_file,
                                           !.image_filepath = image_filepath,
                                           !.linkedin_url = linkedin_url,
                                           !.final_role_choice = final_role_choice,
                                           !.unique_id = unique_id]
               /\ pc' = "read_pdf"
               /\ response' = Pending
    /\ UNCHANGED chat_call
    /\ UNCHANGED <<session, completed_plan>>

\* a POST /process arrives with one of the forms a client can send
process ==
    /\ pc = "idle"
    /\ \E resume_file \in ResumeUploads, profile_pic_file \in PictureUploads,
          linkedin_raw \in LinkedinInputs, role_choice \in CareerChoices,
          custom_raw \in CustomRoles :
            process_begin(resume_file, profile_pic_file, linkedin_raw, role_choice,
                          custom_raw)

\* a read that swallows the error and goes on with no text
ReadPdfLenient(resume_file) ==
    [ok |-> TRUE, text |-> IF resume_file = "corrupt" THEN "" ELSE "resume text"]

\* PdfReader(resume_filepath) and the join of the pages' text, inside the try
ReadPdf(resume_file) ==
    IF resume_file = "corrupt"
    THEN [ok |-> FALSE, text |-> None]
    ELSE [ok |-> TRUE, text |-> "resume text"]

\* the try/except around the PDF read
process_read_pdf ==
    /\ pc = "read_pdf"
    /\ LET read == ReadPdf(req.resume_file)
       IN IF ~read.ok
          THEN /\ response' = Text("Error reading PDF: ...")
               /\ pc' = "idle"
               /\ UNCHANGED req
          ELSE /\ req' = [req EXCEPT !.resume_text = read.text]
               /\ pc' = "scrape"
               /\ UNCHANGED response
    /\ UNCHANGED chat_call
    /\ UNCHANGED <<handler, files, session, next_id, completed_plan,
                   scrape_calls, agent_runs, runvars>>

\* `if linkedin_url:`
ScrapeWanted(linkedin_url) == TruthyStr(linkedin_url)

\* scrape_web_content: the page text, or the error text when requests raises
ScrapeResults == {"linkedin text", "Error scraping"}

\* the optional scrape and the profile text
process_scrape ==
    /\ pc = "scrape"
    /\ \E scraped \in ScrapeResults :
         LET wanted == ScrapeWanted(req.linkedin_url)
             linkedin_text == IF wanted THEN scraped ELSE ""
         IN /\ (~wanted => scraped = "linkedin text")
            /\ scrape_calls' = IF wanted THEN scrape_calls + 1 ELSE scrape_calls
            /\ req' = [req EXCEPT !.student_profile = <<req.resume_text, linkedin_text>>]
    /\ pc' = "run_agent"
    /\ UNCHANGED chat_call
    /\ UNCHANGED <<handler, files, session, response, next_id, completed_plan,
                   agent_runs, runvars>>

\* ---------------------------------------------------------------- agent.py
\* run_agent: the initial state, then the conditional entry point
InitialState(student_profile, role_choice) ==
    [k \in {"student_profile", "role_choice", "chosen_career"} |->
        CASE k = "student_profile" -> student_profile
          [] k = "role_choice" -> role_choice
          [] k = "chosen_career" ->
                IF role_choice \notin Suggesters THEN role_choice ELSE None]

run_agent ==
    /\ pc = "run_agent"
    /\ agent_runs' = agent_runs + 1
    /\ LET initial_state == InitialState(req.student_profile, req.final_role_choice)
           first == route_initial_choice(initial_state)
       IN /\ state' = initial_state
          /\ entry' = first
          /\ mstat' = [n \in MainNodes |-> IF n = first THEN "ready" ELSE "idle"]
    /\ pc' = "agent"
    /\ UNCHANGED chat_call
    /\ UNCHANGED <<handler, req, files, session, response, next_id, completed_plan,
                   scrape_calls, mwrites, mexec, mfin, subvars, calls, raised>>

\* model objects the structured-output calls return
SkillAnalysisObj ==
    [cls |-> "SkillAnalysis",
     fields |-> [technical_skills |-> <<"sql">>, soft_skills |-> <<"teamwork">>]]
ProfileFeedbackObj ==
    [cls |-> "ProfileFeedback",
     fields |-> [resume_strengths |-> <<"projects">>, resume_gaps |-> <<"sql">>,
                 linkedin_suggestions |-> <<"headline">>]]
CareerActionPlanObj(career) ==
    [cls |-> "CareerActionPlan", fields |-> [chosen_career |-> career]]
ParsedExperiences == <<"intern", "tutor", "clerk", "cook">>
ParsedProfileObj(k) ==
    [cls |-> "ParsedProfile",
     fields |-> [full_name |-> "A Student", email |-> "a@x.org", phone |-> "555",
                 education |-> "BSc",
                 raw_experiences |-> SubSeq(ParsedExperiences, 1, k),
                 raw_skills |-> <<"sql", "excel">>]]

\* the state keys a node subscripts (a missing one is a KeyError)
MainReads(n) ==
    CASE n = "suggest_role" -> {"role_choice", "student_profile"}
      [] n = "analyze_market" -> {"chosen_career"}
      [] n = "review_profile" -> {"student_profile", "market_analysis"}
      [] n = "resume_writing_team" -> {"student_profile", "chosen_career", "market_analysis"}
      [] n = "create_final_plan" -> {"chosen_career", "market_analysis", "profile_analysis"}

\* the keys a sub-graph node subscripts before its first model call
SubReads(n) ==
    CASE n = "parse_profile" -> {"student_profile"}
      [] n = "write_summary" -> {"chosen_career", "student_profile"}
      [] n = "rewrite_experience" -> {"parsed_profile"}
      [] n = "optimize_skills" -> {"chosen_career", "market_analysis", "parsed_profile"}
      [] n = "compile_resume" -> {"parsed_profile", "rewritten_summary",
                                  "rewritten_experiences", "optimized_skills"}

\* nodes of the main graph that call the model themselves
MainModelNodes == MainNodes \ {"resume_writing_team"}

\* what the model can answer to a main-graph node
MainAnswers(n) ==
    CASE n = "suggest_role" -> LLMRoleAnswers
      [] n = "analyze_market" -> {SkillAnalysisObj}
      [] n = "review_profile" -> {ProfileFeedbackObj}
      [] n = "create_final_plan" -> {CareerActionPlanObj(c) : c \in LLMPlanCareers}

\* the value a main-graph node returns for its key
MainValue(n, answer) ==
    IF n = "suggest_role" THEN Strip(answer) ELSE answer

\* a node of the main graph is entered; resume_team_node builds the
\* sub-graph and invokes it on the three keys it copies
main_start(n) ==
    /\ pc = "agent"
    /\ mstat[n] = "ready"
    /\ mstat' = [mstat EXCEPT ![n] = "running"]
    /\ mexec' = [mexec EXCEPT ![n] = @ + 1]
    /\ IF n = "resume_writing_team" /\ MainReads(n) \subseteq DOMAIN state
       THEN /\ substate' = [k \in MainReads(n) |-> state[k]]
            /\ sub_pc' = "active"
            /\ sstat' = [m \in SubNodes |-> IF m = "parse_profile" THEN "ready" ELSE "idle"]
            /\ swrites' = {}
            /\ UNCHANGED <<sexec, sfin, rewritten_jobs>>
       ELSE UNCHANGED subvars
    /\ UNCHANGED chat_call
    /\ UNCHANGED <<webvars, state, entry, mwrites, mfin, calls, raised>>

\* the node returned {key: value}: the superstep ends when every node of it
\* has, the updates are applied and the next nodes scheduled; with none
\* left the graph is at END and invoke returns the state
MainReturn(n, value) ==
    LET stat1 == [mstat EXCEPT ![n] = "done"]
        writes == mwrites \cup {<<MainKey(n), value>>}
        stat2 == NextStatus(stat1, MainEdges)
    IN /\ mfin' = [mfin EXCEPT ![n] = @ + 1]
       /\ mstat' = stat2
       /\ IF StepOver(stat1)
          THEN /\ state' = Apply(state, writes)
               /\ mwrites' = {}
               /\ pc' = IF \A m \in MainNodes : stat2[m] = "idle"
                        THEN "agent_done" ELSE "agent"
          ELSE /\ mwrites' = writes
               /\ UNCHANGED <<state, pc>>

\* suggest_role, analyze_market, review_profile, create_final_plan:
\* one prompt, one model call, one update
main_node(n) ==
    /\ pc = "agent"
    /\ n \in MainModelNodes
    /\ mstat[n] = "running"
    /\ MainReads(n) \subseteq DOMAIN state
    /\ \E answer \in MainAnswers(n) :
         /\ calls' = [calls EXCEPT ![n] = @ + 1]
         /\ MainReturn(n, MainValue(n, answer))
    /\ UNCHANGED chat_call
    /\ UNCHANGED <<handler, req, files, session, response, next_id, completed_plan,
                   scrape_calls, agent_runs, entry, mexec, subvars, raised>>

\* a main-graph node raises: its model call fails, or a key it reads is missing
main_node_error(n) ==
    /\ pc = "agent"
    /\ mstat[n] = "running"
    /\ n \notin raised
    /\ LET keyerror == ~(MainReads(n) \subseteq DOMAIN state)
       IN /\ keyerror \/ n \in MainModelNodes
          /\ calls' = [calls EXCEPT ![n] = IF keyerror THEN @ ELSE @ + 1]
    /\ raised' = raised \cup {n}
    /\ mstat' = [mstat EXCEPT ![n] = StatusOnError]
    /\ UNCHANGED chat_call
    /\ UNCHANGED <<webvars, state, entry, mwrites, mexec, mfin, subvars>>

\* resume_team_node returns once the sub-graph's invoke has
resume_team_node ==
    /\ pc = "agent"
    /\ mstat["resume_writing_team"] = "running"
    /\ sub_pc = "ended"
    /\ "final_resume_content" \in DOMAIN substate
    /\ MainReturn("resume_writing_team", substate["final_resume_content"])
    /\ sub_pc' = "none"
    /\ UNCHANGED chat_call
    /\ UNCHANGED <<handler, req, files, session, response, next_id, completed_plan,
                   scrape_calls, agent_runs, entry, mexec, calls, raised,
                   substate, sstat, swrites, sexec, sfin, rewritten_jobs>>

\* ------------------------------------------------- resume-writing sub-graph
sub_start(n) ==
    /\ pc = "agent"
    /\ sub_pc = "active"
    /\ sstat[n] = "ready"
    /\ sstat' = [sstat EXCEPT ![n] = "running"]
    /\ sexec' = [sexec EXCEPT ![n] = @ + 1]
    /\ rewritten_jobs' = IF n = "rewrite_experience" THEN << >> ELSE rewritten_jobs
    /\ UNCHANGED chat_call
    /\ UNCHANGED <<webvars, mainvars, substate, sub_pc, swrites, sfin, calls, raised>>

SubReturn(n, value) ==
    LET stat1 == [sstat EXCEPT ![n] = "done"]
        writes == swrites \cup {<<SubKey(n), value>>}
        stat2 == NextStatus(stat1, SubEdges)
    IN /\ sfin' = [sfin EXCEPT ![n] = @ + 1]
       /\ sstat' = stat2
       /\ IF StepOver(stat1)
          THEN /\ substate' = Apply(substate, writes)
               /\ swrites' = {}
               /\ sub_pc' = IF \A m \in SubNodes : stat2[m] = "idle"
                            THEN "ended" ELSE "active"
          ELSE /\ swrites' = writes
               /\ UNCHANGED <<substate, sub_pc>>

SubRunning(n) ==
    /\ pc = "agent"
    /\ sub_pc = "active"
    /\ sstat[n] = "running"
    /\ SubReads(n) \subseteq DOMAIN substate

parser_node ==
    /\ SubRunning("parse_profile")
    /\ \E k \in 0..MaxExp :
         SubReturn("parse_profile", ParsedProfileObj(k))
    /\ calls' = [calls EXCEPT !["parse_profile"] = @ + 1]
    /\ UNCHANGED chat_call
    /\ UNCHANGED <<webvars, mainvars, sexec, rewritten_jobs, raised>>

summary_node ==
    /\ SubRunning("write_summary")
    /\ SubReturn("write_summary", "a summary")
    /\ calls' = [calls EXCEPT !["write_summary"] = @ + 1]
    /\ UNCHANGED chat_call
    /\ UNCHANGED <<webvars, mainvars, sexec, rewritten_jobs, raised>>

\* the reply to the rewrite prompt, line by line, and the description made
\* of it: blank lines dropped, each line stripped of blanks and bullets
RewriteReply == <<"- led a team", "", " * cut cost ">>
Unbullet(line) ==
    CASE line = "- led a team" -> "led a team"
      [] line = " * cut cost " -> "cut cost"
      [] OTHER -> Strip(line)
RECURSIVE Description(_)
Description(lines) ==
    IF lines = << >> THEN << >>
    ELSE IF Strip(Head(lines)) = "" THEN Description(Tail(lines))
    ELSE <<Unbullet(Head(lines))>> \o Description(Tail(lines))

JobExperienceObj(exp, lines) ==
    [cls |-> "JobExperience",
     fields |-> [title |-> exp, company |-> exp, dates |-> "Present",
                 description |-> Description(lines)]]

\* a loop that stops after the first experience
RawExperiencesFirstOnly(st) ==
    LET all == st["parsed_profile"].fields.raw_experiences
    IN IF Len(all) > 1 THEN SubSeq(all, 1, 1) ELSE all

\* the experiences experience_node loops over
RawExperiences(st) == st["parsed_profile"].fields.raw_experiences

\* the keys the body of experience_node's loop subscripts, once per turn
ExperienceLoopReads == {"chosen_career", "market_analysis"}

\* one turn of experience_node's loop: one model call, one job appended
experience_loop ==
    /\ SubRunning("rewrite_experience")
    /\ Len(rewritten_jobs) < Len(RawExperiences(substate))
    /\ ExperienceLoopReads \subseteq DOMAIN substate
    /\ LET exp == RawExperiences(substate)[Len(rewritten_jobs) + 1]
       IN rewritten_jobs' = Append(rewritten_jobs, JobExperienceObj(exp, RewriteReply))
    /\ calls' = [calls EXCEPT !["rewrite_experience"] = @ + 1]
    /\ UNCHANGED chat_call
    /\ UNCHANGED <<webvars, mainvars, substate, sub_pc, sstat, swrites, sexec, sfin, raised>>

\* experience_node returns when the loop is over
experience_node ==
    /\ SubRunning("rewrite_experience")
    /\ Len(rewritten_jobs) = Len(RawExperiences(substate))
    /\ SubReturn("rewrite_experience", rewritten_jobs)
    /\ UNCHANGED chat_call
    /\ UNCHANGED <<webvars, mainvars, sexec, rewritten_jobs, calls, raised>>

\* result.content.split(','), each piece stripped
SkillsReply == <<"sql", " python">>
StripSkill(piece) == IF piece = " python" THEN "python" ELSE Strip(piece)
OptimizedList(pieces) == [i \in 1..Len(pieces) |-> StripSkill(pieces[i])]

skills_node ==
    /\ SubRunning("optimize_skills")
    /\ SubReturn("optimize_skills", OptimizedList(SkillsReply))
    /\ calls' = [calls EXCEPT !["optimize_skills"] = @ + 1]
    /\ UNCHANGED chat_call
    /\ UNCHANGED <<webvars, mainvars, sexec, rewritten_jobs, raised>>

TailoredResumeContentObj(st) ==
    LET parsed == st["parsed_profile"].fields
    IN [cls |-> "TailoredResumeContent",
        fields |-> [full_name |-> parsed.full_name, email |-> parsed.email,
                    phone |-> parsed.phone, education |-> parsed.education,
                    summary |-> st["rewritten_summary"],
                    experiences |-> st["rewritten_experiences"],
                    skills |-> st["optimized_skills"]]]

\* compile_resume_node assembles the object from the state, with no model call
compile_resume_node ==
    /\ SubRunning("compile_resume")
    /\ SubReturn("compile_resume", TailoredResumeContentObj(substate))
    /\ UNCHANGED chat_call
    /\ UNCHANGED <<webvars, mainvars, sexec, rewritten_jobs, calls, raised>>

\* whether a running sub-graph node, the keys of SubReads read, still has a
\* model call to make
CallPending(n) ==
    CASE n \in {"parse_profile", "write_summary", "optimize_skills"} -> TRUE
      [] n = "rewrite_experience" -> Len(rewritten_jobs) < Len(RawExperiences(substate))
      [] n = "compile_resume" -> FALSE

\* whether a running sub-graph node subscripts a key its state does not hold:
\* one of SubReads, or, in a turn of experience_node's loop, one of the loop's
MissingKey(n) ==
    \/ ~(SubReads(n) \subseteq DOMAIN substate)
    \/ /\ n = "rewrite_experience"
       /\ CallPending(n)
       /\ ~(ExperienceLoopReads \subseteq DOMAIN substate)

\* a sub-graph node raises: its model call fails, or a key it reads is missing
sub_node_error(n) ==
    /\ pc = "agent"
    /\ sub_pc = "active"
    /\ sstat[n] = "running"
    /\ n \notin raised
    /\ LET keyerror == MissingKey(n)
       IN /\ keyerror \/ CallPending(n)
          /\ calls' = [calls EXCEPT ![n] = IF keyerror THEN @ ELSE @ + 1]
    /\ raised' = raised \cup {n}
    /\ sstat' = [sstat EXCEPT ![n] = StatusOnError]
    /\ UNCHANGED chat_call
    /\ UNCHANGED <<webvars, mainvars, substate, sub_pc, swrites, sexec, sfin, rewritten_jobs>>

\* the exception of a failed node leaves the graph(s), run_agent and
\* process(): Flask answers 500
raise_to_handler ==
    /\ pc = "agent"
    /\ \/ \E n \in MainNodes : mstat[n] = "failed"
       \/ \E n \in SubNodes : sstat[n] = "failed"
       \/ /\ mstat["resume_writing_team"] = "running"
          /\ sub_pc = "ended"
          /\ "final_resume_content" \notin DOMAIN substate
    /\ pc' = "idle"
    /\ response' = Error500
    /\ ResetRun
    /\ UNCHANGED chat_call
    /\ UNCHANGED <<handler, req, files, session, next_id, completed_plan,
                   scrape_calls, agent_runs>>

\* ---------------------------------------------------- resume_generator.py
\* the content check inverted: the file is written only for no content
create_resume_pdf_inverted(content, image_path, output_path, folder) ==
    IF TruthyObj(content) THEN folder ELSE folder \cup {output_path}

\* create_resume_pdf: the upload folder after the call. Nothing is written
\* when `not content`; otherwise pdf.output(output_path) writes the file
create_resume_pdf(content, image_path, output_path, folder) ==
    IF ~TruthyObj(content) THEN folder ELSE folder \cup {output_path}

\* ---------------------------------------------------------------- app.py
\* process(), after run_agent returned: the two subscripts of agent_result
\* and create_resume_pdf, which may raise (fonts, rendering, disk)
process_create_pdf ==
    /\ pc = "agent_done"
    /\ \E pdf_ok \in BOOLEAN :
         IF {"final_plan", "tailored_resume"} \subseteq DOMAIN state /\ pdf_ok
         THEN /\ files' = create_resume_pdf(state["tailored_resume"], req.image_filepath,
                                            GeneratedName(req.unique_id), files)
              /\ pc' = "pdf_done"
              /\ UNCHANGED <<response, runvars>>
         ELSE /\ response' = Error500
              /\ pc' = "idle"
              /\ ResetRun
              /\ UNCHANGED files
    /\ UNCHANGED chat_call
    /\ UNCHANGED <<handler, req, session, next_id, completed_plan,
                   scrape_calls, agent_runs>>

\* render_template('result.html', ...) raises after session['plan'] was
\* assigned: process() ends in a 500. Flask's own error response carries the
\* modified session cookie, so the plan stays with the client; with the
\* exception propagated to the server (debug, as under app.run) no cookie is
\* sent and the session is as it was
process_render_error ==
    /\ pc = "pdf_done"
    /\ LET final_plan == state["final_plan"]
       IN \E cookie_sent \in BOOLEAN :
            session' = IF cookie_sent
                       THEN Update(session, "plan", Dict(final_plan))
                       ELSE session
    /\ response' = Error500
    /\ pc' = "idle"
    /\ ResetRun
    /\ UNCHANGED chat_call
    /\ UNCHANGED <<handler, req, files, next_id, completed_plan, scrape_calls,
                   agent_runs>>

\* session['plan'] = final_plan.dict(), then the result page: the assignment
\* is to the request's own session object, which reaches the client, as its
\* new cookie, with the response
process_finish ==
    /\ pc = "pdf_done"
    /\ LET final_plan == state["final_plan"]
       IN /\ session' = Update(session, "plan", Dict(final_plan))
          /\ completed_plan' = final_plan
          /\ response' = [kind |-> "html", template |-> "result.html",
                          plan |-> final_plan,
                          resume_pdf_filename |-> GeneratedName(req.unique_id)]
    /\ pc' = "idle"
    /\ ResetRun
    /\ UNCHANGED chat_call
    /\ UNCHANGED <<handler, req, files, next_id, scrape_calls, agent_runs>>

\* send_from_directory(UPLOAD_FOLDER, filename, ...)
send_from_directory(folder, filename, as_attachment) ==
    IF filename \in folder
    THEN [kind |-> "file", filename |-> filename, as_attachment |-> as_attachment]
    ELSE [kind |-> "error", status |-> 404, filename |-> filename]

preview_resume(filename) ==
    /\ pc = "idle"
    /\ handler' = "preview"
    /\ response' = send_from_directory(files, filename, FALSE)
    /\ req' = NoRequest
    /\ UNCHANGED chat_call
    /\ scrape_calls' = 0 /\ agent_runs' = 0
    /\ UNCHANGED <<pc, files, session, next_id, completed_plan, runvars>>

download_resume(filename) ==
    /\ pc = "idle"
    /\ handler' = "download"
    /\ response' = send_from_directory(files, filename, TRUE)
    /\ req' = NoRequest
    /\ UNCHANGED chat_call
    /\ scrape_calls' = 0 /\ agent_runs' = 0
    /\ UNCHANGED <<pc, files, session, next_id, completed_plan, runvars>>

\* chat() without the context check
HasContextAlways(plan_context) == TRUE

\* `if not plan_context:` of chat(), negated
HasContext(plan_context) == TruthyDict(plan_context)

\* `request.json.get(...)`, the first two lines of chat(): the statuses its
\* raise can end in, none when the body is a JSON object. A JSON value without
\* .get (an array, null, a string) raises AttributeError, which Flask answers
\* with 500; a body that is not JSON raises in request.json, 400 or 415, or
\* yields None and then 500, by the version of Flask installed
JsonGetErrors(body) ==
    CASE body = "object" -> {}
      [] body = "array" -> {500}
      [] body = "not_json" -> {400, 415, 500}

\* chat() up to the call of run_chat. The request carries the session cookie
\* the client held when it sent it; the body is read first, then the plan of
\* that session. The handler holds no lock and shares nothing with process():
\* it is handled at any point of a /process in flight, and with run_chat
\* called (chat_call.response Pending) it waits for the model while the other
\* handlers go on. One /chat of the client is followed at a time
chat(body) ==
    /\ chat_call.body = None
    /\ LET errors == JsonGetErrors(body)
           plan_context == Get(session, "plan", EmptyDict)
       IN IF errors # {}
          THEN \E status \in errors :
                 chat_call' = [body |-> body, called |-> FALSE, plan_text |-> None,
                               response |-> [kind |-> "error", status |-> status]]
          ELSE IF ~HasContext(plan_context)
          THEN chat_call' =
                 [body |-> body, called |-> FALSE, plan_text |-> None,
                  response |-> Json("I'm sorry, I've lost context. Please start over.")]
          ELSE chat_call' = [body |-> body, called |-> TRUE,
                             plan_text |-> Str(plan_context), response |-> Pending]
    /\ UNCHANGED <<webvars, runvars>>

\* run_chat, one model call on the plan_text it was given, returns its answer
\* or raises (500), whatever happened to the session since chat() read it
run_chat ==
    /\ chat_call.called
    /\ chat_call.response = Pending
    /\ \E ok \in BOOLEAN :
         chat_call' = [chat_call EXCEPT
                          !.response = IF ok THEN Json("an answer") ELSE Error500]
    /\ UNCHANGED <<webvars, runvars>>

\* the response of chat() has left (or Flask's error response has)
chat_return ==
    /\ chat_call.body # None
    /\ chat_call.response # Pending
    /\ chat_call' = NoChat
    /\ UNCHANGED <<webvars, runvars>>

\* ---------------------------------------------------------------- system
Next ==
    \/ process
    \/ process_read_pdf
    \/ process_scrape
    \/ run_agent
    \/ \E n \in MainNodes : main_start(n)
    \/ \E n \in MainNodes : main_node(n)
    \/ \E n \in MainNodes : main_node_error(n)
    \/ resume_team_node
    \/ \E n \in SubNodes : sub_start(n)
    \/ parser_node
    \/ summary_node
    \/ experience_loop
    \/ experience_node
    \/ skills_node
    \/ compile_resume_node
    \/ \E n \in SubNodes : sub_node_error(n)
    \/ raise_to_handler
    \/ process_create_pdf
    \/ process_render_error
    \/ process_finish
    \/ \E filename \in RequestableNames : preview_resume(filename)
    \/ \E filename \in RequestableNames : download_resume(filename)

Spec == Init /\ [][Next]_vars

\* the same with /chat
NextChat ==
    \/ Next
    \/ \E body \in ChatBodies : chat(body)
    \/ run_chat
    \/ chat_return

ChatSpec == Init /\ [][NextChat]_vars

\* ================================================================ claims
RunReturned == pc \in {"agent_done", "pdf_done"}

\* the chain of C1: the node that must have finished before n starts
ChainPredecessors(n) ==
    CASE n = "suggest_role" -> {}
      [] n = "analyze_market" -> IF entry = "suggest_role" THEN {"suggest_role"} ELSE {}
      [] n = "review_profile" -> {"analyze_market"}
      [] n = "resume_writing_team" -> {"review_profile"}
      [] n = "create_final_plan" -> {"resume_writing_team"}

\* C1: the main graph runs suggest_role (only if entered there), analyze_market,
\* review_profile, resume_writing_team, create_final_plan in that order: a node
\* has started only if its predecessor in the chain has returned, and a run that
\* reached END ran the last four exactly once each and returns a state that
\* holds final_plan and tailored_resume.
C1_FixedOrder ==
    /\ \A n \in MainNodes :
         mexec[n] > 0 =>
            /\ n = "suggest_role" => entry = "suggest_role"
            /\ \A p \in ChainPredecessors(n) : mfin[p] >= 1
    /\ RunReturned =>
         /\ \A n \in MainNodes \ {"suggest_role"} : mexec[n] = 1 /\ mfin[n] = 1
         /\ mexec["suggest_role"] = (IF entry = "suggest_role" THEN 1 ELSE 0)
         /\ {"final_plan", "tailored_resume"} \subseteq DOMAIN state
         /\ state["final_plan"].cls = "CareerActionPlan"
         /\ state["tailored_resume"].cls = "TailoredResumeContent"

\* a run entered at suggest_role has reached END
C1_Witness ==
    /\ pc = "agent_done"
    /\ entry = "suggest_role"
    /\ mfin["suggest_role"] = 1
    /\ mfin["create_final_plan"] = 1

\* the distinct nodes, of both graphs, that have executed in the run
Executed ==
    {n \in MainNodes : mexec[n] > 0} \cup {n \in SubNodes : sexec[n] > 0}

\* C2 as stated: in one run of run_agent, main graph and sub-graph together,
\* at most seven distinct nodes execute.
C2_AtMostSevenNodes == Cardinality(Executed) <= 7

\* C2 amended: at most ten distinct nodes execute, the five of the main graph
\* and the five of the sub-graph; ten only when role_choice is resume_based or
\* market_demand, and at most nine otherwise (suggest_role is skipped).
C2_AtMostTenNodes ==
    pc \in {"agent", "agent_done", "pdf_done"} =>
        Cardinality(Executed) <=
            (IF req.final_role_choice \in Suggesters THEN 10 ELSE 9)

\* a run in which all ten nodes executed
C2_Witness == pc = "agent_done" /\ Cardinality(Executed) = 10

\* times a node has returned in the run
Returned(n) == IF n \in MainNodes THEN mfin[n] ELSE sfin[n]

\* C3 as stated: every execution of every node, of the main graph and of the
\* sub-graph, issues exactly one call to the language model.
C3_OneCallPerNode ==
    \A n \in AllNodes : Returned(n) = 1 => calls[n] = 1

SingleCallNodes ==
    {"suggest_role", "analyze_market", "review_profile", "create_final_plan",
     "parse_profile", "write_summary", "optimize_skills"}

\* C3 amended: suggest_role, analyze_market, review_profile, create_final_plan,
\* parse_profile, write_summary and optimize_skills issue exactly one model call
\* per execution; rewrite_experience issues one call per parsed raw experience
\* (none for an empty list); compile_resume and resume_writing_team issue no
\* call of their own.
C3_CallsPerNode ==
    /\ \A n \in SingleCallNodes :
         calls[n] <= 1 /\ (Returned(n) = 1 => calls[n] = 1)
    /\ calls["compile_resume"] = 0
    /\ calls["resume_writing_team"] = 0
    /\ sfin["rewrite_experience"] = 1 =>
         /\ "parsed_profile" \in DOMAIN substate
         /\ calls["rewrite_experience"] =
                Len(substate["parsed_profile"].fields.raw_experiences)

\* a sub-graph run with two parsed experiences, rewritten and compiled
C3_Witness ==
    /\ sfin["rewrite_experience"] = 1
    /\ calls["rewrite_experience"] = 2
    /\ sfin["compile_resume"] = 1
    /\ calls["compile_resume"] = 0

\* the nodes an edge path leads to from n
RECURSIVE Reach(_, _, _)
Reach(frontier, edges, seen) ==
    LET next == {e[2] : e \in {e \in edges : e[1] \in frontier}} \ seen
    IN IF next = {} THEN seen ELSE Reach(next, edges, seen \cup next)
MainFollowers(n) == Reach({n}, MainEdges, {}) \ {END}
SubFollowers(n) == Reach({n}, SubEdges, {}) \ {END}

C4_AfterFailure ==
    raised # {} =>
        /\ pc = "agent"
        /\ GeneratedName(req.unique_id) \notin files
        /\ \A n \in raised \cap MainNodes :
             /\ mexec[n] = 1 /\ mfin[n] = 0
             /\ \A m \in MainFollowers(n) : mexec[m] = 0
        /\ \A n \in raised \cap SubNodes :
             /\ sexec[n] = 1 /\ sfin[n] = 0
             /\ \A m \in SubFollowers(n) : sexec[m] = 0
             /\ mfin["resume_writing_team"] = 0
             /\ \A m \in MainFollowers("resume_writing_team") : mexec[m] = 0

C4_FailureStep ==
    raised # {} =>
        /\ files' = files
        /\ session' = session
        /\ pc' \in {"agent", "idle"}
        /\ pc' = "idle" => response' = Error500

\* C4: no retries and no error recovery. Once the model call of a node (of
\* either graph) has failed, that node is not executed again, no node that
\* follows it in its graph (nor, for a sub-graph node, after resume_writing_team)
\* is executed, run_agent does not return a state but lets the failure out, and
\* process() neither writes the generated PDF nor sets session['plan'].
C4_NoRetryNoRecovery == []C4_AfterFailure /\ [][C4_FailureStep]_vars

\* write_summary failed while a sibling branch went on and returned
C4_Witness ==
    /\ pc = "agent"
    /\ "write_summary" \in raised
    /\ sfin["optimize_skills"] = 1
    /\ TruthyDict(session)

C5_Rejected ==
    (handler = "process" /\ req.resume_file \in {"missing", "empty_filename"}) =>
        /\ pc = "idle"
        /\ response = Text("A PDF resume is required to proceed.")
        /\ scrape_calls = 0
        /\ agent_runs = 0

C5_RejectStep ==
    (pc = "idle" /\ handler' = "process"
        /\ req'.resume_file \in {"missing", "empty_filename"}) =>
        /\ files' = files
        /\ session' = session
        /\ next_id' = next_id
        /\ pc' = "idle"

C5_NoLinkedin ==
    (handler = "process" /\ req.resume_file = "pdf" /\ req.linkedin_url = "") =>
        /\ scrape_calls = 0
        /\ agent_runs <= 1
        /\ pc \in {"agent", "agent_done", "pdf_done", "idle"} => agent_runs = 1

\* C5: the resume is required and the LinkedIn URL optional. A /process request
\* with no resume file, or one with an empty filename, answers 'A PDF resume is
\* required to proceed.' and saves nothing, scrapes nothing, does not invoke
\* run_agent and leaves session['plan'] alone; a request with a readable resume
\* and an empty linkedin_url never invokes scrape_web_content and invokes
\* run_agent exactly once.
C5_ResumeRequired == [](C5_Rejected /\ C5_NoLinkedin) /\ [][C5_RejectStep]_vars

\* a request with an empty filename is turned away in a session that already
\* holds uploads and a plan
C5_Witness ==
    /\ handler = "process"
    /\ req.resume_file = "empty_filename"
    /\ response = Text("A PDF resume is required to proceed.")
    /\ files # {}
    /\ TruthyDict(session)

C6_Written ==
    /\ pc = "pdf_done" => GeneratedName(req.unique_id) \in files
    /\ (response.kind = "html" /\ response.template = "result.html") =>
            response.resume_pdf_filename \in files

C6_ServeStep ==
    /\ files \subseteq files'
    /\ session' # session => GeneratedName(req.unique_id) \in files
    /\ (response.kind = "html" /\ handler' \in {"preview", "download"}
            /\ response'.filename = response.resume_pdf_filename) =>
          response'.kind = "file"

\* C6: whenever process() returns result.html with resume_pdf_filename, the file
\* of that name has been written to the upload folder by create_resume_pdf,
\* before the response and before session['plan'] is set; no file is ever
\* removed, so a following /preview or /download of that name finds it.
C6_PdfBeforePage == []C6_Written /\ [][C6_ServeStep]_vars

\* the result page has been returned and its PDF is in the upload folder
C6_Witness ==
    /\ handler = "process"
    /\ response.kind = "html"
    /\ response.resume_pdf_filename \in files
    /\ Get(session, "plan", EmptyDict) = Dict(response.plan)

LostContext == Json("I'm sorry, I've lost context. Please start over.")

\* C7 as stated: /chat calls the model only when the session holds a non-empty
\* plan, that is only after a /process of the session ran to completion; in
\* every other case it answers "I'm sorry, I've lost context. Please start
\* over." without a model call. The plan context of a call is the plan of the
\* latest completed /process.
C7_ChatNeedsPlanAnyBody ==
    chat_call.body # None =>
        /\ chat_call.called <=> TruthyObj(completed_plan)
        /\ chat_call.called => chat_call.plan_text = Str(Dict(completed_plan))
        /\ ~chat_call.called => chat_call.response = LostContext

\* what a /chat in flight has done, by its body
C7_Answered ==
    chat_call.body # None =>
        /\ chat_call.called => chat_call.body = "object"
        /\ chat_call.response = Pending => chat_call.called
        /\ (chat_call.body = "object" /\ ~chat_call.called) =>
              chat_call.response = LostContext
        /\ chat_call.body # "object" =>
              /\ chat_call.response.kind = "error"
              /\ chat_call.response.status \in {400, 415, 500}

\* a /chat arrives: the session it reads is the one the client holds then
C7_ChatStep ==
    (chat_call.body = None /\ chat_call'.body # None) =>
        LET plan_context == Get(session, "plan", EmptyDict)
        IN /\ chat_call'.called <=>
                 (chat_call'.body = "object" /\ TruthyDict(plan_context))
           /\ chat_call'.called => chat_call'.plan_text = Str(plan_context)
           /\ session' = session

\* the plan a call was given stays the one it was given until the response has
\* left, whatever /process stores meanwhile
C7_CallStep ==
    (chat_call.called /\ chat_call'.body # None) =>
        /\ chat_call'.called
        /\ chat_call'.plan_text = chat_call.plan_text
        /\ chat_call.response # Pending => chat_call'.response = chat_call.response

\* the session changes only in the last lines of a /process whose run_agent
\* returned and whose PDF was written, to hold the final_plan of that run
C7_StoreStep ==
    session' # session =>
        /\ handler = "process"
        /\ pc = "pdf_done" /\ pc' = "idle"
        /\ agent_runs = 1
        /\ GeneratedName(req.unique_id) \in files
        /\ TruthyObj(state["final_plan"])
        /\ session' = [k \in {"plan"} |-> Dict(state["final_plan"])]
        /\ TruthyDict(session'["plan"])
        /\ response'.kind \in {"html", "error"}
        /\ response'.kind = "html" => completed_plan' = state["final_plan"]
        /\ response'.kind = "error" => completed_plan' = completed_plan

\* the session holds no plan or a non-empty one, and with no /process past its
\* run_agent and PDF it holds none
C7_Session ==
    /\ DOMAIN session \subseteq {"plan"}
    /\ TruthyDict(session) => TruthyDict(session["plan"])
    /\ TruthyDict(session) => \E i \in 1..next_id : GeneratedName(i) \in files
    /\ TruthyObj(completed_plan) => TruthyDict(session)

\* C7, amended: /chat calls the model exactly when its body is a JSON object
\* and the session the request carried holds a non-empty plan. A plan enters
\* the session only at the end of a /process whose run_agent returned and
\* whose PDF was written; it comes with the result page, or stays behind when
\* render_template raises after the assignment, so the /process need not have
\* run to completion. With a JSON object and no plan /chat answers "I'm
\* sorry, I've lost context. Please start over." without a model call. With
\* any other body it raises before the session is read: the answer is an HTTP
\* error (400, 415 or 500), whatever the session holds, and no model call is
\* made. The plan context of a call is the plan the session held when /chat
\* read it; a /process that stores a new plan while run_chat is waiting for
\* the model does not change it, so it can be older than the plan of the
\* latest completed /process.
C7_ChatNeedsPlan ==
    /\ [](C7_Answered /\ C7_Session)
    /\ [][C7_ChatStep /\ C7_CallStep /\ C7_StoreStep]_vars

\* run_chat answered from the plan of the first /process after the second
\* /process completed and stored another plan
C7_Witness ==
    /\ chat_call.called
    /\ chat_call.response = Json("an answer")
    /\ TruthyDict(session)
    /\ chat_call.plan_text # Str(session["plan"])
    /\ session["plan"] = Dict(completed_plan)
    /\ handler = "process" /\ response.kind = "html"
    /\ next_id = 2

\* C8: for every role_choice process() can pass to run_agent (the form value,
\* the custom role, or a missing value) the run enters at suggest_role exactly
\* when role_choice is 'resume_based' or 'market_demand', and chosen_career is
\* set (not None) when analyze_market executes.
C8_ChosenCareerSet ==
    /\ entry # None =>
         (entry = "suggest_role" <=> state["role_choice"] \in Suggesters)
    /\ mstat["analyze_market"] = "running" => state["chosen_career"] # None

\* C9: in the sub-graph write_summary, rewrite_experience and optimize_skills
\* start only after parse_profile has returned, and compile_resume executes
\* exactly once, only after all three have returned, whatever the interleaving
\* of the three branches.
C9_FanOutFanIn ==
    LET branches == {"write_summary", "rewrite_experience", "optimize_skills"}
    IN /\ \A b \in branches :
            /\ sexec[b] <= 1
            /\ sexec[b] > 0 => sfin["parse_profile"] = 1
       /\ sexec["compile_resume"] <= 1
       /\ sexec["compile_resume"] > 0 => \A b \in branches : sfin[b] = 1
       /\ sub_pc = "ended" =>
            sexec["compile_resume"] = 1 /\ sfin["compile_resume"] = 1

\* compile_resume has run after the three branches, the experience branch
\* having looped twice
C9_Witness ==
    /\ sub_pc = "ended"
    /\ sfin["compile_resume"] = 1
    /\ sfin["write_summary"] = 1 /\ sfin["optimize_skills"] = 1
    /\ sfin["rewrite_experience"] = 1
    /\ Len(rewritten_jobs) = 2

PdfErrorText == Text("Error reading PDF: ...")

C10_Returned ==
    (handler = "process" /\ response = PdfErrorText) =>
        /\ pc = "idle"
        /\ req.resume_file = "corrupt"
        /\ scrape_calls = 0
        /\ agent_runs = 0
        /\ GeneratedName(req.unique_id) \notin files
        /\ ResumeName(req.unique_id) \in files
        /\ req.image_filepath # NoPath => req.image_filepath \in files

\* the next step of process() (a step of /chat is not one)
C10_ReadStep ==
    (pc = "read_pdf" /\ req.resume_file = "corrupt"
        /\ chat_call.body = None /\ chat_call'.body = None) =>
        /\ pc' = "idle"
        /\ response' = PdfErrorText
        /\ files' = files
        /\ session' = session
        /\ completed_plan' = completed_plan

\* C10: when reading the saved resume fails, process() returns 'Error reading
\* PDF: ...' and ends there: no scrape, no run_agent, no generated PDF, and
\* session['plan'] as it was; the resume and the picture saved under the
\* request's unique id stay in the upload folder.
C10_PdfReadError == []C10_Returned /\ [][C10_ReadStep]_vars

\* an unreadable resume, sent with a picture in a session that holds a plan
C10_Witness ==
    /\ handler = "process"
    /\ response = PdfErrorText
    /\ req.image_filepath \in files
    /\ TruthyDict(session)

InitialKeys == {"student_profile", "role_choice", "chosen_career"}
SubInputKeys == {"student_profile", "chosen_career", "market_analysis"}
Keys(writes) == {w[1] : w \in writes}

\* main graph: one key per node that returned, the two input keys untouched,
\* chosen_career touched by suggest_role alone
C11_MainFrame ==
    pc \in {"agent", "agent_done", "pdf_done"} =>
        /\ InitialKeys \subseteq DOMAIN state
        /\ Cardinality((DOMAIN state) \cup Keys(mwrites)) =
              3 + Cardinality({n \in MainNodes \ {"suggest_role"} : mfin[n] >= 1})
        /\ state["student_profile"] = req.student_profile
        /\ state["role_choice"] = req.final_role_choice
        /\ state["chosen_career"] =
              (IF mfin["suggest_role"] >= 1 THEN "Data Analyst"
               ELSE IF req.final_role_choice \in Suggesters THEN None
               ELSE req.final_role_choice)
        /\ "market_analysis" \in DOMAIN state =>
              state["market_analysis"].cls = "SkillAnalysis"
        /\ "profile_analysis" \in DOMAIN state =>
              state["profile_analysis"].cls = "ProfileFeedback"
        /\ "tailored_resume" \in DOMAIN state =>
              state["tailored_resume"].cls = "TailoredResumeContent"

\* sub-graph: every node that returned added one key of its own (buffered
\* until the superstep ends), and the three input keys are as they were copied
C11_SubFrame ==
    (pc = "agent" /\ sub_pc \in {"active", "ended"}) =>
        /\ SubInputKeys \subseteq DOMAIN substate
        /\ \A k \in SubInputKeys : substate[k] = state[k]
        /\ Keys(swrites) \cap DOMAIN substate = {}
        /\ Cardinality(Keys(swrites)) = Cardinality({n \in SubNodes : sstat[n] = "done"})
        /\ Cardinality((DOMAIN substate) \cup Keys(swrites)) =
              3 + Cardinality({n \in SubNodes : sfin[n] >= 1})

\* the resume the sub-graph compiles, as a function of the parsed profile and
\* the (fixed) replies alone
ExpectedResume(parsed) ==
    [cls |-> "TailoredResumeContent",
     fields |-> [full_name |-> parsed.full_name, email |-> parsed.email,
                 phone |-> parsed.phone, education |-> parsed.education,
                 summary |-> "a summary",
                 experiences |->
                    [i \in 1..Len(parsed.raw_experiences) |->
                        [cls |-> "JobExperience",
                         fields |-> [title |-> parsed.raw_experiences[i],
                                     company |-> parsed.raw_experiences[i],
                                     dates |-> "Present",
                                     description |-> <<"led a team", "cut cost">>]]],
                 skills |-> <<"sql", "python">>]]

C11_SameResult ==
    (pc = "agent" /\ sub_pc = "ended") =>
        /\ DOMAIN substate = SubInputKeys \cup
              {"parsed_profile", "rewritten_summary", "rewritten_experiences",
               "optimized_skills", "final_resume_content"}
        /\ substate["rewritten_summary"] = "a summary"
        /\ substate["optimized_skills"] = <<"sql", "python">>
        /\ Len(substate["rewritten_experiences"]) =
              Len(substate["parsed_profile"].fields.raw_experiences)
        /\ substate["final_resume_content"] =
              ExpectedResume(substate["parsed_profile"].fields)

\* C11: every node returns an update for exactly one state key, which no other
\* node of its graph writes, and leaves the other keys alone (student_profile
\* and role_choice keep their initial values); so, for fixed model replies, the
\* final sub-graph state and the compiled TailoredResumeContent are the same
\* whatever the order in which write_summary, rewrite_experience and
\* optimize_skills ran.
C11_OneKeyPerNode == C11_MainFrame /\ C11_SubFrame /\ C11_SameResult

\* the sub-graph has ended with two experiences compiled into the resume
C11_Witness ==
    /\ pc = "agent"
    /\ sub_pc = "ended"
    /\ Len(substate["final_resume_content"].fields.experiences) = 2
    /\ mfin["suggest_role"] = 1

====
